---------------------------- MODULE Spec2Model ----------------------------
(***************************************************************************)
(* Model of nikocraft.window.rgb.RGBColor (src/nikocraft/window/rgb.py)    *)
(* and of nikocraft.window.scene.Scene (src/nikocraft/window/scene.py).    *)
(*                                                                         *)
(* A Python number is modelled as a rational <<n, d>> with d > 0, which is *)
(* exact for the integers and for the halves, thirds, ... the operators    *)
(* produce before the constructor rounds them.  A str is a sequence of     *)
(* one-character strings.  The outcome of an operation is a record         *)
(* [kind, val]: a color, a str, a bool or a raised exception.              *)
(***************************************************************************)
EXTENDS Integers, Sequences, FiniteSets, TLC

VARIABLES
    op,      \* name of the operation applied last ("input" before the first)
    self,    \* the RGBColor the program holds, the receiver of op (<<>> when none)
    args,    \* the arguments of the operation
    result,  \* what the operation returned or raised
    steps    \* number of operations applied so far

colorVars == <<op, self, args, result, steps>>

VARIABLES
    scenes,  \* the Scene objects constructed so far, in order of construction
    dicts,   \* the dict objects on the heap; a Scene's args names one of them
    window,  \* the Window all scenes refer to: its screen, clock and logger
    call,    \* the Scene method or property used last and what it returned
    loop     \* the frame loop of the Window: position, events, hooks invoked

sceneVars == <<scenes, dicts, window, call, loop>>

vars == <<op, self, args, result, steps, scenes, dicts, window, call, loop>>

---------------------------------------------------------------------------
(* Bounds of the model *)

MaxSteps == 2      \* operations applied in a row
MaxLen == 6        \* length of the generated from_hex inputs
MaxFactor == 3     \* |integer factor| of __mul__
MaxDivisor == 2    \* |divisor| of __truediv__ and __floordiv__
MaxPower == 2      \* exponent of __pow__
MaxModulo == 2     \* |modulo| of __pow__
MaxScenes == 3     \* Scene objects constructed
MaxFrames == 2     \* frames the window runs
MaxEvents == 2     \* events delivered in one frame

---------------------------------------------------------------------------
(* Python numbers *)

Num(n) == <<n, 1>>

\* n // d of Python: the floor of the quotient, for either sign of d
FloorDiv(n, d) == IF d > 0 THEN n \div d ELSE (-n) \div (-d)

\* n % d of Python: the remainder has the sign of d
PyMod(n, d) == n - d * FloorDiv(n, d)

\* a / b of Python on two numbers, b non-zero, as a rational with d > 0
Quot(a, b) ==
    LET n == a[1] * b[2]
        d == a[2] * b[1]
    IN  IF d < 0 THEN <<-n, -d>> ELSE <<n, d>>

Prod(a, b) == <<a[1] * b[1], a[2] * b[2]>>

IsZero(a) == a[1] = 0

\* round(x) of Python 3: to the nearest integer, a tie to the even one
round(x) ==
    LET f == x[1] \div x[2]
        r == x[1] - f * x[2]
    IN  IF 2 * r < x[2] THEN f
        ELSE IF 2 * r > x[2] THEN f + 1
        ELSE IF f % 2 = 0 THEN f ELSE f + 1

RECURSIVE IntPow(_, _)
IntPow(b, e) == IF e = 0 THEN 1 ELSE b * IntPow(b, e - 1)

---------------------------------------------------------------------------
(* Outcomes *)

None == [kind |-> "none", val |-> <<>>]
Color(c) == [kind |-> "color", val |-> c]
Str(s) == [kind |-> "str", val |-> s]
Bool(b) == [kind |-> "bool", val |-> <<b>>]
Raise(e) == [kind |-> "error", val |-> <<e>>]

---------------------------------------------------------------------------
(* RGBColor *)

\* RGBColor.__new__: the three arguments rounded, nothing clamped
RGBColor(red, green, blue) == <<round(red), round(green), round(blue)>>

red(c) == c[1]
green(c) == c[2]
blue(c) == c[3]

list(c) == <<c[1], c[2], c[3]>>

clamp_wrap(c) ==
    LET clamped == list(c)
        step(v) == IF v < 0 THEN v + 256 ELSE IF v > 255 THEN v - 256 ELSE v
    IN  RGBColor(Num(step(clamped[1])), Num(step(clamped[2])), Num(step(clamped[3])))

clamp_shared(c) ==
    LET clamped == list(c)
        step(v) == IF clamped[1] < 0 THEN 0 ELSE IF clamped[1] > 255 THEN 255 ELSE v
    IN  RGBColor(Num(step(clamped[1])), Num(step(clamped[2])), Num(step(clamped[3])))

\* RGBColor.clamp: each element of the list copy clipped in the loop
clamp(c) ==
    LET clamped == list(c)
        step(v) == IF v < 0 THEN 0 ELSE IF v > 255 THEN 255 ELSE v
    IN  RGBColor(Num(step(clamped[1])), Num(step(clamped[2])), Num(step(clamped[3])))

eq_first_two(a, b) == a[1] = b[1] /\ a[2] = b[2]

__eq__(a, b) == a[1] = b[1] /\ a[2] = b[2] /\ a[3] = b[3]

__ne__(a, b) == a[1] # b[1] \/ a[2] # b[2] \/ a[3] # b[3]

add_wrap(a, b) ==
    RGBColor(Num((a[1] + b[1]) % 256), Num((a[2] + b[2]) % 256), Num((a[3] + b[3]) % 256))

__add__(a, b) ==
    clamp(RGBColor(Num(a[1] + b[1]), Num(a[2] + b[2]), Num(a[3] + b[3])))

__sub__(a, b) ==
    clamp(RGBColor(Num(a[1] - b[1]), Num(a[2] - b[2]), Num(a[3] - b[3])))

__mul__(c, factor) ==
    clamp(RGBColor(Prod(Num(c[1]), factor), Prod(Num(c[2]), factor), Prod(Num(c[3]), factor)))

\* RGBColor.mix: the clamped sum, halved, clamped
mix(a, b) == clamp(__mul__(__add__(a, b), <<1, 2>>))

truediv_zero_black(c, divisor) ==
    IF IsZero(divisor) THEN Color(<<0, 0, 0>>)
    ELSE Color(clamp(RGBColor(Quot(Num(c[1]), divisor), Quot(Num(c[2]), divisor),
                              Quot(Num(c[3]), divisor))))

\* self[0] / divisor raises before any color is built
__truediv__(c, divisor) ==
    IF IsZero(divisor) THEN Raise("ZeroDivisionError")
    ELSE Color(clamp(RGBColor(Quot(Num(c[1]), divisor), Quot(Num(c[2]), divisor),
                              Quot(Num(c[3]), divisor))))

__floordiv__(c, divisor) ==
    IF divisor = 0 THEN Raise("ZeroDivisionError")
    ELSE Color(clamp(RGBColor(Num(FloorDiv(c[1], divisor)), Num(FloorDiv(c[2], divisor)),
                              Num(FloorDiv(c[3], divisor)))))

\* pow(base, power, modulo) of Python on integers, power >= 0;
\* modulo is <<>> for None and <<m>> otherwise
pow(base, power, modulo) ==
    IF modulo = <<>> THEN IntPow(base, power)
    ELSE PyMod(IntPow(base, power), modulo[1])

pow_unclamped(c, power, modulo) ==
    IF modulo # <<>> /\ modulo[1] = 0 THEN Raise("ValueError")
    ELSE Color(RGBColor(Num(pow(c[1], power, modulo)), Num(pow(c[2], power, modulo)),
                        Num(pow(c[3], power, modulo))))

__pow__(c, power, modulo) ==
    IF modulo # <<>> /\ modulo[1] = 0 THEN Raise("ValueError")
    ELSE Color(clamp(RGBColor(Num(pow(c[1], power, modulo)), Num(pow(c[2], power, modulo)),
                              Num(pow(c[3], power, modulo)))))

---------------------------------------------------------------------------
(* Strings *)

HexChars == <<"0", "1", "2", "3", "4", "5", "6", "7",
              "8", "9", "a", "b", "c", "d", "e", "f">>

UpperHexChars == <<"0", "1", "2", "3", "4", "5", "6", "7",
                   "8", "9", "A", "B", "C", "D", "E", "F">>

IsHexDigit(ch) == \E k \in 1..16 : HexChars[k] = ch \/ UpperHexChars[k] = ch

HexValue(ch) == (CHOOSE k \in 1..16 : HexChars[k] = ch \/ UpperHexChars[k] = ch) - 1

\* the digits of n >= 0 in base 16, lowercase, most significant first
RECURSIVE HexDigits(_)
HexDigits(n) ==
    IF n < 16 THEN <<HexChars[n + 1]>>
    ELSE Append(HexDigits(n \div 16), HexChars[(n % 16) + 1])

format_02x_nopad(n) == IF n < 0 THEN <<"-">> \o HexDigits(-n) ELSE HexDigits(n)

\* '%02x' % n: at least two characters, filled with zeros, the sign counted
format_02x(n) ==
    IF n < 0 THEN <<"-">> \o HexDigits(-n)
    ELSE IF n < 16 THEN <<"0">> \o HexDigits(n)
    ELSE HexDigits(n)

\* RGBColor.hex
hex(c) == <<"#">> \o format_02x(c[1]) \o format_02x(c[2]) \o format_02x(c[3])

\* value.replace(ch, "") for a one-character ch
RemoveChar(value, ch) == SelectSeq(value, LAMBDA x : x # ch)

\* value.replace("0x", ""): the occurrences found scanning from the left
RECURSIVE Remove0x(_)
Remove0x(value) ==
    IF Len(value) < 2 THEN value
    ELSE IF value[1] = "0" /\ value[2] = "x" THEN Remove0x(SubSeq(value, 3, Len(value)))
    ELSE <<value[1]>> \o Remove0x(Tail(value))

\* value[i:j] of Python, 0 <= i <= j: cut short at the end of the string
Slice(value, i, j) ==
    LET hi == IF j < Len(value) THEN j ELSE Len(value)
    IN  IF i >= hi THEN <<>> ELSE SubSeq(value, i + 1, hi)

RECURSIVE LStrip(_)
LStrip(s) == IF s # <<>> /\ s[1] = " " THEN LStrip(Tail(s)) ELSE s

RECURSIVE RStrip(_)
RStrip(s) ==
    IF s # <<>> /\ s[Len(s)] = " " THEN RStrip(SubSeq(s, 1, Len(s) - 1)) ELSE s

RECURSIVE DigitsValue(_)
DigitsValue(s) ==
    IF s = <<>> THEN 0
    ELSE 16 * DigitsValue(SubSeq(s, 1, Len(s) - 1)) + HexValue(s[Len(s)])

\* int(s, 16) on a string of at most two characters: surrounding whitespace
\* stripped, one optional sign, then one or more hex digits of either case
\* (a "0x" prefix or a "_" needs more than two characters to be a literal).
\* <<v>> is the value, <<>> the ValueError.
int(s) ==
    LET t == RStrip(LStrip(s))
        signed == t # <<>> /\ t[1] \in {"+", "-"}
        digits == IF signed THEN Tail(t) ELSE t
    IN  IF digits # <<>> /\ \A k \in 1..Len(digits) : IsHexDigit(digits[k])
        THEN <<(IF signed /\ t[1] = "-" THEN -1 ELSE 1) * DigitsValue(digits)>>
        ELSE <<>>

cleaned_hash_only(value) == RemoveChar(value, "#")

\* what from_hex parses: the string without "#" and then without "0x"
Cleaned(value) == Remove0x(RemoveChar(value, "#"))

\* RGBColor.from_hex
from_hex(value) ==
    LET v == Cleaned(value)
        r == int(Slice(v, 0, 2))
        g == int(Slice(v, 2, 4))
        b == int(Slice(v, 4, 6))
    IN  IF r = <<>> \/ g = <<>> \/ b = <<>> THEN Raise("ValueError")
        ELSE Color(RGBColor(Num(r[1]), Num(g[1]), Num(b[1])))

---------------------------------------------------------------------------
(* Scene *)

\* pygame surfaces: the display surface of the window (replaced by another
\* when the window is resized) and an off-screen surface a scene may own
NoSurface == [id |-> "None", w |-> 0, h |-> 0]
Display1 == [id |-> "display1", w |-> 640, h |-> 480]
Display2 == [id |-> "display2", w |-> 800, h |-> 600]
Offscreen == [id |-> "offscreen", w |-> 320, h |-> 200]

\* the Window as a Scene reads it: window.screen, window.clock.delta_time,
\* window.app.logger
Windows ==
    { [screen |-> Display1, delta_time |-> 16, logger |-> "app.logger"],
      [screen |-> Display2, delta_time |-> 33, logger |-> "app.logger"] }

Window0 == [screen |-> Display1, delta_time |-> 16, logger |-> "app.logger"]

\* args of Scene.__init__: 0 is None, d > 0 the dict dicts[d] of the caller;
\* a dict on the heap is its set of keys and the place that created it
NoArgs == 0

init_shared_default(heap, win, a) ==
    LET defaults == {d \in 1..Len(heap) : heap[d].by = "Scene.__init__"}
        fresh == a = NoArgs /\ defaults = {}
    IN  [heap |-> IF fresh THEN Append(heap, [keys |-> {}, by |-> "Scene.__init__"])
                  ELSE heap,
         obj |-> [window |-> win,
                  args |-> IF fresh THEN Len(heap) + 1
                           ELSE IF a = NoArgs THEN CHOOSE d \in defaults : TRUE
                           ELSE a,
                  screen_cache |-> FALSE,
                  _screen |-> NoSurface]]

\* Scene.__init__: the object built and the heap after it; a call without
\* args evaluates {} and so allocates a dict of its own
__init__(heap, win, a) ==
    [heap |-> IF a = NoArgs THEN Append(heap, [keys |-> {}, by |-> "Scene.__init__"])
              ELSE heap,
     obj |-> [window |-> win,
              args |-> IF a = NoArgs THEN Len(heap) + 1 ELSE a,
              screen_cache |-> FALSE,
              _screen |-> NoSurface]]

screen_fallback(scene, win) ==
    IF scene.screen_cache /\ scene._screen # NoSurface THEN scene._screen ELSE win.screen

\* Scene.screen
screen(scene, win) == IF scene.screen_cache THEN scene._screen ELSE win.screen

\* Scene.logger
logger(scene, win) == win.logger

width_of_screen(scene, win) == screen(scene, win).w

\* Scene.width
width(scene, win) == win.screen.w

\* Scene.height
height(scene, win) == win.screen.h

\* Scene.dimension: Vec(width, height)
dimension(scene, win) == <<win.screen.w, win.screen.h>>

\* Scene.dt
dt(scene, win) == win.delta_time

init_caches(scene) == [scene EXCEPT !.screen_cache = TRUE]

\* the seven hooks of the base class: each body is pass
init(scene) == scene
event(scene, e) == scene
render(scene) == scene
early_update(scene) == scene
update(scene) == scene
late_update(scene) == scene
quit(scene) == scene

NoCall == [name |-> "none", scene |-> 0, arg |-> <<>>, ret |-> <<>>]

LoopIdle ==
    [pc |-> "idle", active |-> 0, frame |-> 0, queue |-> <<>>,
     delivered |-> <<>>, log |-> <<>>]

\* no Scene exists
SceneIdle ==
    /\ scenes = <<>>
    /\ dicts = <<>>
    /\ window = Window0
    /\ call = NoCall
    /\ loop = LoopIdle

---------------------------------------------------------------------------
(* Inputs *)

\* constructor arguments: in range, out of range, negative, not integral
InitArgs ==
    { <<Num(0), Num(0), Num(0)>>, <<Num(255), Num(255), Num(255)>>,
      <<Num(300), Num(-10), Num(128)>>, <<Num(1), Num(2), Num(3)>>,
      <<Num(3), Num(2), Num(1)>>, <<Num(-300), Num(600), Num(17)>>,
      <<Num(128), Num(255), Num(0)>>, <<Num(254), Num(1), Num(256)>>,
      <<<<5, 2>>, <<7, 2>>, <<-1, 2>>>> }

\* the colors given as the other operand of mix, +, -, == and !=
Operands == { RGBColor(a[1], a[2], a[3]) : a \in InitArgs }

Factors == { Num(n) : n \in -MaxFactor..MaxFactor } \cup { <<1, 2>>, <<3, 2>> }

Divisors == -MaxDivisor..MaxDivisor

Powers == 0..MaxPower

Modulos == { <<>> } \cup { <<m>> : m \in -MaxModulo..MaxModulo }

\* every channel value 0..255 in every position
RoundTripArgs ==
    { <<Num(v), Num(255 - v), Num(16 * (v % 16) + (v \div 16))>> : v \in 0..255 }
    \cup { <<Num(300), Num(-10), Num(128)>>, <<Num(-1), Num(256), Num(4096)>> }

Seqs(S, n) == UNION { [1..k -> S] : k \in 0..n }

BodyChars == {"1", "f", "-", " ", "g"}

Bodies == Seqs(BodyChars, MaxLen)

Groups ==
    { <<"f", "f">>, <<"0", "A">>, <<"-", "1">>, <<"+", "f">>, <<" ", "1">>, <<"1", " ">>,
      <<"1", "g">>, <<" ", " ">>, <<"-", "-">>, <<"0", "x">>, <<"1", "_">> }

Grouped == { a \o b \o c : a, b, c \in Groups }

Prefixes ==
    { <<>>, <<"#">>, <<"0", "x">>, <<"#", "0", "x">>, <<"0", "x", "#">> }

Prefixed ==
    { p \o b : p \in Prefixes,
               b \in Seqs({"0", "c"}, MaxLen) \cup { <<"1", "a", "2", "b", "3", "c">> } }

HexInputs == Bodies \cup Grouped \cup Prefixed

---------------------------------------------------------------------------
(* Operations *)

\* the color the next operation is applied to: the one returned last, or the
\* receiver of the last operation when that returned no color
HasCur == result.kind = "color" \/ self # <<>>
Cur == IF result.kind = "color" THEN result.val ELSE self

Apply(name, a, r) ==
    /\ steps < MaxSteps
    /\ HasCur
    /\ op' = name
    /\ self' = Cur
    /\ args' = a
    /\ result' = r
    /\ steps' = steps + 1
    /\ UNCHANGED sceneVars

\* RGBColor(red, green, blue)
New ==
    /\ op = "input"
    /\ Len(args) = 3
    /\ op' = "__new__"
    /\ result' = Color(RGBColor(args[1], args[2], args[3]))
    /\ UNCHANGED <<self, args, steps>>
    /\ UNCHANGED sceneVars

\* RGBColor.from_hex(value), on an input string or on the str hex returned
FromHex ==
    /\ steps < MaxSteps
    /\ \/ op = "input" /\ Len(args) = 1 /\ args' = args
       \/ result.kind = "str" /\ args' = <<result.val>>
    /\ op' = "from_hex"
    /\ self' = self
    /\ result' = from_hex(args'[1])
    /\ steps' = steps + 1
    /\ UNCHANGED sceneVars

Hex == Apply("hex", <<>>, Str(hex(Cur)))

Clamp == Apply("clamp", <<>>, Color(clamp(Cur)))

Mix == \E other \in Operands : Apply("mix", <<other>>, Color(mix(Cur, other)))

Add == \E other \in Operands : Apply("__add__", <<other>>, Color(__add__(Cur, other)))

Sub == \E other \in Operands : Apply("__sub__", <<other>>, Color(__sub__(Cur, other)))

Eq == \E other \in Operands \cup {Cur} :
          Apply("__eq__", <<other>>, Bool(__eq__(Cur, other)))

Ne == \E other \in Operands \cup {Cur} :
          Apply("__ne__", <<other>>, Bool(__ne__(Cur, other)))

Mul == \E factor \in Factors : Apply("__mul__", <<factor>>, Color(__mul__(Cur, factor)))

TrueDiv == \E divisor \in Divisors :
               Apply("__truediv__", <<divisor>>, __truediv__(Cur, Num(divisor)))

FloorDivide == \E divisor \in Divisors :
                   Apply("__floordiv__", <<divisor>>, __floordiv__(Cur, divisor))

Pow == \E power \in Powers, modulo \in Modulos :
           Apply("__pow__", <<power, modulo>>, __pow__(Cur, power, modulo))

---------------------------------------------------------------------------
(* Specifications *)

\* arithmetic: a color is constructed and operators are applied in a row
Init ==
    /\ op = "input"
    /\ self = <<>>
    /\ args \in InitArgs
    /\ result = None
    /\ steps = 0
    /\ SceneIdle

Next ==
    \/ New
    \/ Clamp
    \/ Mix
    \/ Add
    \/ Sub
    \/ Eq
    \/ Ne
    \/ Mul
    \/ TrueDiv
    \/ FloorDivide
    \/ Pow

Spec == Init /\ [][Next]_vars

\* hex strings: parsed, formatted and parsed again
HexInit ==
    /\ op = "input"
    /\ self = <<>>
    /\ args \in RoundTripArgs \cup { <<s>> : s \in HexInputs }
    /\ result = None
    /\ steps = 0
    /\ SceneIdle

HexNext ==
    \/ New
    \/ FromHex
    \/ Hex

HexSpec == HexInit /\ [][HexNext]_vars

---------------------------------------------------------------------------
(* Scene objects: construction, attributes, hooks and properties *)

Keys == {"level", "seed"}

Called(name, s, a, r) == call' = [name |-> name, scene |-> s, arg |-> a, ret |-> r]

\* Scene(window): no args
Construct ==
    /\ Len(scenes) < MaxScenes
    /\ LET made == __init__(dicts, "window", NoArgs)
       IN  /\ scenes' = Append(scenes, made.obj)
           /\ dicts' = made.heap
           /\ Called("__init__", Len(scenes) + 1, <<NoArgs>>, <<>>)
    /\ UNCHANGED <<window, loop>>
    /\ UNCHANGED colorVars

\* Scene(window, args): args is a dict the caller has just built, or the
\* args of a scene constructed before
ConstructWithArgs ==
    /\ Len(scenes) < MaxScenes
    /\ \E heap \in {dicts, Append(dicts, [keys |-> Keys, by |-> "caller"])} :
          \E a \in 1..Len(heap) :
              LET made == __init__(heap, "window", a)
              IN  /\ heap # dicts => a = Len(heap)
                  /\ scenes' = Append(scenes, made.obj)
                  /\ dicts' = made.heap
                  /\ Called("__init__", Len(scenes) + 1, <<a>>, <<>>)
    /\ UNCHANGED <<window, loop>>
    /\ UNCHANGED colorVars

\* scene.args[k] = ...
SetItem ==
    /\ \E s \in 1..Len(scenes), k \in Keys :
          /\ dicts' = [dicts EXCEPT ![scenes[s].args].keys = @ \cup {k}]
          /\ Called("args.__setitem__", s, <<k>>, <<>>)
    /\ UNCHANGED <<scenes, window, loop>>
    /\ UNCHANGED colorVars

\* scene.screen_cache = b, as a subclass does
SetScreenCache ==
    /\ \E s \in 1..Len(scenes), b \in BOOLEAN :
          /\ scenes' = [scenes EXCEPT ![s].screen_cache = b]
          /\ Called("screen_cache=", s, <<b>>, <<>>)
    /\ UNCHANGED <<dicts, window, loop>>
    /\ UNCHANGED colorVars

\* scene._screen = surface, as a subclass does
SetScreen ==
    /\ \E s \in 1..Len(scenes), surface \in {NoSurface, Offscreen} :
          /\ scenes' = [scenes EXCEPT ![s]._screen = surface]
          /\ Called("_screen=", s, <<surface>>, <<>>)
    /\ UNCHANGED <<dicts, window, loop>>
    /\ UNCHANGED colorVars

\* the window is resized and a frame passes: another display surface and
\* another delta time
WindowChange ==
    /\ window' \in Windows \ {window}
    /\ Called("window", 0, <<>>, <<>>)
    /\ UNCHANGED <<scenes, dicts, loop>>
    /\ UNCHANGED colorVars

\* a hook is called on scene s
Invoke(name, s, a, after) ==
    /\ scenes' = [scenes EXCEPT ![s] = after]
    /\ Called(name, s, a, <<>>)
    /\ UNCHANGED <<dicts, window, loop>>
    /\ UNCHANGED colorVars

CallInit == \E s \in 1..Len(scenes) : Invoke("init", s, <<>>, init(scenes[s]))

CallEvent == \E s \in 1..Len(scenes) : Invoke("event", s, <<"e">>, event(scenes[s], "e"))

CallRender == \E s \in 1..Len(scenes) : Invoke("render", s, <<>>, render(scenes[s]))

CallEarlyUpdate ==
    \E s \in 1..Len(scenes) : Invoke("early_update", s, <<>>, early_update(scenes[s]))

CallUpdate == \E s \in 1..Len(scenes) : Invoke("update", s, <<>>, update(scenes[s]))

CallLateUpdate ==
    \E s \in 1..Len(scenes) : Invoke("late_update", s, <<>>, late_update(scenes[s]))

CallQuit == \E s \in 1..Len(scenes) : Invoke("quit", s, <<>>, quit(scenes[s]))

\* a property of scene s is read
Read(name, s, value) ==
    /\ Called(name, s, <<>>, <<value>>)
    /\ UNCHANGED <<scenes, dicts, window, loop>>
    /\ UNCHANGED colorVars

ReadScreen == \E s \in 1..Len(scenes) : Read("screen", s, screen(scenes[s], window))

ReadLogger == \E s \in 1..Len(scenes) : Read("logger", s, logger(scenes[s], window))

ReadWidth == \E s \in 1..Len(scenes) : Read("width", s, width(scenes[s], window))

ReadHeight == \E s \in 1..Len(scenes) : Read("height", s, height(scenes[s], window))

ReadDimension ==
    \E s \in 1..Len(scenes) : Read("dimension", s, dimension(scenes[s], window))

ReadDt == \E s \in 1..Len(scenes) : Read("dt", s, dt(scenes[s], window))

\* scene.args is read: the keys of the mapping
ReadArgs == \E s \in 1..Len(scenes) : Read("args", s, dicts[scenes[s].args].keys)

ColorIdle ==
    /\ op = "input"
    /\ self = <<>>
    /\ args = <<>>
    /\ result = None
    /\ steps = 0

\* construction and argument mappings: scenes are constructed, with or
\* without args, and keys are added to their args
ArgsInit ==
    /\ ColorIdle
    /\ SceneIdle

ArgsNext ==
    \/ Construct
    \/ ConstructWithArgs
    \/ SetItem
    \/ ReadArgs

ArgsSpec == ArgsInit /\ [][ArgsNext]_vars

\* one scene, constructed with or without args, whose attributes are
\* assigned, whose hooks are called and whose properties are read while the
\* window changes
SceneInit ==
    /\ ColorIdle
    /\ \E heap \in {<<>>, <<[keys |-> Keys, by |-> "caller"]>>} :
          LET a == IF heap = <<>> THEN NoArgs ELSE 1
              made == __init__(heap, "window", a)
          IN  /\ scenes = <<made.obj>>
              /\ dicts = made.heap
              /\ call = [name |-> "__init__", scene |-> 1, arg |-> <<a>>, ret |-> <<>>]
    /\ window = Window0
    /\ loop = LoopIdle

SceneNext ==
    \/ SetItem
    \/ SetScreenCache
    \/ SetScreen
    \/ WindowChange
    \/ CallInit
    \/ CallEvent
    \/ CallRender
    \/ CallEarlyUpdate
    \/ CallUpdate
    \/ CallLateUpdate
    \/ CallQuit
    \/ ReadScreen
    \/ ReadLogger
    \/ ReadWidth
    \/ ReadHeight
    \/ ReadDimension
    \/ ReadDt

SceneSpec == SceneInit /\ [][SceneNext]_vars

---------------------------------------------------------------------------
(* The frame loop of the Window: it makes a scene active, calls its hooks   *)
(* frame after frame and calls quit when the scene is replaced or the       *)
(* window closes.  loop.pc is "idle" (no active scene), "init" (a scene was *)
(* constructed), "between" (between two frames) or the phase of the frame   *)
(* about to run; loop.log lists the hooks called as <<hook, scene, frame,   *)
(* argument>>.                                                              *)

Events == {"keydown", "resize"}

frame_order_events_first == <<"events", "early_update", "update", "render", "late_update">>

\* the phases of one frame, in order
FrameOrder == <<"early_update", "events", "update", "render", "late_update">>

\* the phase after phase p, "between" after the last one
After(p) ==
    LET i == CHOOSE k \in 1..Len(FrameOrder) : FrameOrder[k] = p
    IN  IF i = Len(FrameOrder) THEN "between" ELSE FrameOrder[i + 1]

\* the active scene's hook is called: its effect on the scene, the log entry
Hook(name, a, after) ==
    /\ scenes' = [scenes EXCEPT ![loop.active] = after]
    /\ Called(name, loop.active, a, <<>>)
    /\ UNCHANGED <<dicts, window>>
    /\ UNCHANGED colorVars

Logged(name, a) == Append(loop.log, <<name, loop.active, loop.frame, a>>)

\* the scene manager constructs the next scene
LoopActivate ==
    /\ loop.pc = "idle"
    /\ Len(scenes) < MaxScenes
    /\ LET made == __init__(dicts, "window", NoArgs)
       IN  /\ scenes' = Append(scenes, made.obj)
           /\ dicts' = made.heap
           /\ Called("__init__", Len(scenes) + 1, <<NoArgs>>, <<>>)
    /\ loop' = [loop EXCEPT !.pc = "init", !.active = Len(scenes) + 1]
    /\ UNCHANGED window
    /\ UNCHANGED colorVars

LoopInit ==
    /\ loop.pc = "init"
    /\ Hook("init", <<>>, init(scenes[loop.active]))
    /\ loop' = [loop EXCEPT !.pc = "between", !.log = Logged("init", <<>>)]

\* a frame begins: the events the event source delivers in it are fixed
LoopBeginFrame ==
    /\ loop.pc = "between"
    /\ loop.frame < MaxFrames
    /\ \E evs \in Seqs(Events, MaxEvents) :
          loop' = [loop EXCEPT !.pc = FrameOrder[1], !.frame = @ + 1,
                               !.queue = evs, !.delivered = Append(@, evs)]
    /\ Called("frame", loop.active, <<>>, <<>>)
    /\ UNCHANGED <<scenes, dicts, window>>
    /\ UNCHANGED colorVars

LoopEarlyUpdate ==
    /\ loop.pc = "early_update"
    /\ Hook("early_update", <<>>, early_update(scenes[loop.active]))
    /\ loop' = [loop EXCEPT !.pc = After("early_update"),
                            !.log = Logged("early_update", <<>>)]

\* the next event delivered is handed to the scene
LoopEvent ==
    /\ loop.pc = "events"
    /\ loop.queue # <<>>
    /\ LET e == Head(loop.queue)
       IN  /\ Hook("event", <<e>>, event(scenes[loop.active], e))
           /\ loop' = [loop EXCEPT !.queue = Tail(@), !.log = Logged("event", <<e>>)]

\* no event is left
LoopEventsDone ==
    /\ loop.pc = "events"
    /\ loop.queue = <<>>
    /\ loop' = [loop EXCEPT !.pc = After("events")]
    /\ Called("events", loop.active, <<>>, <<>>)
    /\ UNCHANGED <<scenes, dicts, window>>
    /\ UNCHANGED colorVars

LoopUpdate ==
    /\ loop.pc = "update"
    /\ Hook("update", <<>>, update(scenes[loop.active]))
    /\ loop' = [loop EXCEPT !.pc = After("update"), !.log = Logged("update", <<>>)]

LoopRender ==
    /\ loop.pc = "render"
    /\ Hook("render", <<>>, render(scenes[loop.active]))
    /\ loop' = [loop EXCEPT !.pc = After("render"), !.log = Logged("render", <<>>)]

LoopLateUpdate ==
    /\ loop.pc = "late_update"
    /\ Hook("late_update", <<>>, late_update(scenes[loop.active]))
    /\ loop' = [loop EXCEPT !.pc = After("late_update"),
                            !.log = Logged("late_update", <<>>)]

loop_quit_stays_active ==
    /\ loop.pc = "between"
    /\ Len(loop.log) < 4 * (MaxFrames + MaxEvents + 2)
    /\ Hook("quit", <<>>, quit(scenes[loop.active]))
    /\ loop' = [loop EXCEPT !.log = Logged("quit", <<>>)]

\* the active scene is replaced, or the window closes
LoopQuit ==
    /\ loop.pc = "between"
    /\ Hook("quit", <<>>, quit(scenes[loop.active]))
    /\ loop' = [loop EXCEPT !.pc = "idle", !.active = 0, !.log = Logged("quit", <<>>)]

LoopInitial ==
    /\ ColorIdle
    /\ SceneIdle

LoopNext ==
    \/ LoopActivate
    \/ LoopInit
    \/ LoopBeginFrame
    \/ LoopEarlyUpdate
    \/ LoopEvent
    \/ LoopEventsDone
    \/ LoopUpdate
    \/ LoopRender
    \/ LoopLateUpdate
    \/ LoopQuit

LoopSpec == LoopInitial /\ [][LoopNext]_vars

---------------------------------------------------------------------------
(* Properties *)

InRange(c) == \A i \in 1..3 : 0 <= c[i] /\ c[i] <= 255

Min(a, b) == IF a < b THEN a ELSE b
Max(a, b) == IF a > b THEN a ELSE b
Clip(v) == Max(0, Min(255, v))

IsIntegral(a) == \A i \in 1..3 : a[i][2] = 1

\* C1: mixing two colors with channels in [0,255] gives, in each channel, the
\* average of the two channels (rounded to a neighbouring integer), so that
\* white mixed with white is white.
C1_MixIsAverage ==
    (op = "mix" /\ InRange(self) /\ InRange(args[1])) =>
        /\ result.kind = "color"
        /\ \A i \in 1..3 :
              /\ 2 * result.val[i] >= self[i] + args[1][i] - 1
              /\ 2 * result.val[i] <= self[i] + args[1][i] + 1

\* C2: from_hex raises, and returns no color, when the string left after
\* removing "#" and "0x" consists of fewer than 6 hex digits.
C2_ShortInputRaises ==
    (/\ op = "from_hex"
     /\ Len(Cleaned(args[1])) < 6
     /\ \A k \in 1..Len(Cleaned(args[1])) : IsHexDigit(Cleaned(args[1])[k])) =>
        result.kind = "error"

\* C3: from_hex raises, and returns no color, when one of the three
\* two-character groups of the cleaned string is not made of two hex digits.
C3_BadGroupRaises ==
    (/\ op = "from_hex"
     /\ Len(Cleaned(args[1])) >= 6
     /\ \E k \in 1..6 : ~IsHexDigit(Cleaned(args[1])[k])) =>
        result.kind = "error"

\* C4: for channels in [0,255], hex is "#" followed by the two lowercase
\* zero-padded hex digits of red, green and blue in that order, and from_hex
\* of that string returns the same color.
C4_HexRoundTrip ==
    /\ (op = "hex" /\ InRange(self)) =>
          /\ result.kind = "str"
          /\ Len(result.val) = 7
          /\ result.val[1] = "#"
          /\ \A i \in 1..3 :
                /\ result.val[2 * i] = HexChars[(self[i] \div 16) + 1]
                /\ result.val[2 * i + 1] = HexChars[(self[i] % 16) + 1]
    /\ (op = "from_hex" /\ self # <<>> /\ InRange(self)) =>
          /\ result.kind = "color"
          /\ __eq__(result.val, self)

C4_Witness ==
    /\ op = "from_hex"
    /\ self = <<10, 245, 160>>
    /\ args = << <<"#", "0", "a", "f", "5", "a", "0">> >>
    /\ result = Color(<<10, 245, 160>>)

\* C5: each channel of a + b is the sum of the two channels clipped to
\* [0,255], each channel of a - b the difference clipped to [0,255], whatever
\* the other two channels are.
C5_AddSubClip ==
    /\ op = "__add__" =>
          /\ result.kind = "color"
          /\ \A i \in 1..3 : result.val[i] = Clip(self[i] + args[1][i])
    /\ op = "__sub__" =>
          /\ result.kind = "color"
          /\ \A i \in 1..3 : result.val[i] = Clip(self[i] - args[1][i])

C5_Witness ==
    /\ op = "__add__"
    /\ self = <<300, -10, 128>>
    /\ args = << <<-300, 600, 17>> >>
    /\ result = Color(<<0, 255, 145>>)

\* C6: the color returned by +, -, * by an integer, // by a non-zero integer,
\* pow with a non-negative integer exponent (and no or a non-zero modulo), mix
\* and clamp has every channel in [0,255], whatever colors the sequence of
\* operations started from.
C6_ResultInRange ==
    (\/ op \in {"__add__", "__sub__", "mix", "clamp"}
     \/ op = "__mul__" /\ args[1][2] = 1
     \/ op = "__floordiv__" /\ args[1] # 0
     \/ op = "__pow__" /\ args[1] >= 0 /\ args[2] # <<0>>) =>
        /\ result.kind = "color"
        /\ InRange(result.val)

C6_Witness ==
    /\ steps = 2
    /\ op = "__pow__"
    /\ self = <<255, 0, 128>>
    /\ args = <<2, <<>> >>
    /\ result = Color(<<255, 0, 255>>)

\* C7: the constructor stores integer channels as given, without clamping,
\* and clamp clips each channel on its own: below 0 to 0, above 255 to 255,
\* anything else unchanged.
C7_NewStoresClampClips ==
    /\ (op = "__new__" /\ IsIntegral(args)) =>
          result = Color(<<args[1][1], args[2][1], args[3][1]>>)
    /\ op = "clamp" =>
          /\ result.kind = "color"
          /\ \A i \in 1..3 :
                /\ self[i] < 0 => result.val[i] = 0
                /\ self[i] > 255 => result.val[i] = 255
                /\ (0 <= self[i] /\ self[i] <= 255) => result.val[i] = self[i]

C7_Witness ==
    /\ op = "clamp"
    /\ steps = 1
    /\ self = <<300, -10, 128>>
    /\ result = Color(<<255, 0, 128>>)

\* C8: clamp is idempotent: clamping what clamp returned returns it again.
C8_ClampIdempotent ==
    op = "clamp" => __eq__(clamp(result.val), result.val)

C8_Witness ==
    /\ op = "clamp"
    /\ steps = 2
    /\ self = <<0, 255, 17>>
    /\ result = Color(<<0, 255, 17>>)

\* C9: c / 0 and c // 0 raise ZeroDivisionError for every color c, the
\* all-zero color included; no color is returned and c is the color it was.
C9_DivisionByZeroRaises ==
    (op \in {"__truediv__", "__floordiv__"} /\ args[1] = 0) =>
        /\ result = Raise("ZeroDivisionError")
        /\ Cur = self

C9_Witness ==
    /\ op = "__truediv__"
    /\ self = <<0, 0, 0>>
    /\ args = <<0>>
    /\ result = Raise("ZeroDivisionError")

\* C10: a == b holds exactly when red, green and blue are pairwise equal in
\* that order; it is reflexive and symmetric; a != b is its negation.
C10_EqualityComponentwise ==
    /\ op = "__eq__" =>
          /\ result.kind = "bool"
          /\ result.val[1] <=> (/\ red(self) = red(args[1])
                                /\ green(self) = green(args[1])
                                /\ blue(self) = blue(args[1]))
          /\ result.val[1] <=> __eq__(args[1], self)
          /\ __eq__(self, self)
    /\ op = "__ne__" =>
          /\ result.kind = "bool"
          /\ result.val[1] <=> ~(/\ red(self) = red(args[1])
                                 /\ green(self) = green(args[1])
                                 /\ blue(self) = blue(args[1]))
          /\ result.val[1] <=> ~__eq__(self, args[1])

C10_Witness ==
    /\ op = "__eq__"
    /\ self = <<1, 2, 3>>
    /\ args = << <<3, 2, 1>> >>
    /\ result = Bool(FALSE)

\* the base-16 value of the two characters of s at offsets i and i + 1
PairValue(s, i) == 16 * HexValue(s[i + 1]) + HexValue(s[i + 2])

\* C15: from_hex of a string of 6 hex digits, bare or prefixed with "#",
\* "0x", "#0x" or "0x#", is the color whose channels are the base-16 values of
\* the character pairs at offsets 0-1, 2-3 and 4-5 of the digits, the same
\* color the bare digits give.
C15_PrefixIgnored ==
    op = "from_hex" =>
        \A p \in Prefixes :
            LET s == SubSeq(args[1], Len(p) + 1, Len(args[1]))
            IN  (/\ Len(args[1]) = Len(p) + 6
                 /\ SubSeq(args[1], 1, Len(p)) = p
                 /\ \A k \in 1..6 : IsHexDigit(s[k])) =>
                    /\ result = Color(<<PairValue(s, 0), PairValue(s, 2), PairValue(s, 4)>>)
                    /\ result = from_hex(s)

C15_Witness ==
    /\ op = "from_hex"
    /\ args = << <<"0", "x", "#", "1", "a", "2", "b", "3", "c">> >>
    /\ result = Color(<<26, 43, 60>>)

\* C13: reading screen returns the scene's _screen (set or not) when
\* screen_cache is true and the window's current surface when it is false,
\* whatever was assigned before; a scene just constructed has screen_cache
\* false and so gives the window's surface.
C13_ScreenSelects ==
    /\ call.name = "screen" =>
          /\ scenes[call.scene].screen_cache => call.ret = <<scenes[call.scene]._screen>>
          /\ ~scenes[call.scene].screen_cache => call.ret = <<window.screen>>
    /\ call.name = "__init__" =>
          /\ scenes[call.scene].screen_cache = FALSE
          /\ screen(scenes[call.scene], window) = window.screen

C13_Witness ==
    /\ call.name = "screen"
    /\ scenes[call.scene].screen_cache
    /\ scenes[call.scene]._screen = NoSurface
    /\ window.screen = Display2
    /\ call.ret = <<NoSurface>>

\* scene s was constructed without args: its mapping was created by
\* Scene.__init__ and no scene constructed earlier has it
NoArgsScene(s) ==
    /\ dicts[scenes[s].args].by = "Scene.__init__"
    /\ \A t \in 1..(s - 1) : scenes[t].args # scenes[s].args

\* C14: a Scene constructed without args has an empty mapping of its own,
\* whatever was constructed and added before: no other scene has the same
\* mapping, and a key added to the args of one scene constructed without args
\* does not change the args of another.
C14_DefaultArgsNotShared ==
    /\ []((call.name = "__init__" /\ call.arg = <<NoArgs>>) =>
             /\ dicts[scenes[call.scene].args].keys = {}
             /\ \A t \in 1..Len(scenes) :
                   t # call.scene => scenes[t].args # scenes[call.scene].args)
    /\ [][(call'.name = "args.__setitem__" /\ NoArgsScene(call'.scene)) =>
            \A t \in 1..Len(scenes) :
                (t # call'.scene /\ NoArgsScene(t)) =>
                    dicts'[scenes[t].args].keys = dicts[scenes[t].args].keys]_vars

C14_Witness ==
    /\ call.name = "__init__"
    /\ call.arg = <<NoArgs>>
    /\ call.scene = 2
    /\ NoArgsScene(1)
    /\ dicts[scenes[1].args].keys = {"level"}
    /\ dicts[scenes[2].args].keys = {}

HookNames == {"init", "event", "render", "early_update", "update", "late_update", "quit"}

PropertyNames == {"screen", "logger", "width", "height", "dimension", "dt"}

\* C16: calling any of the seven hooks of the base class, or reading any of
\* its properties, changes neither the scene's window, args, screen_cache and
\* _screen nor the mapping and the window themselves.
C16_HooksChangeNothing ==
    [][call'.name \in HookNames \cup PropertyNames =>
          /\ scenes' = scenes
          /\ dicts' = dicts
          /\ window' = window]_vars

C16_Witness ==
    /\ call.name = "init"
    /\ scenes[1].screen_cache = FALSE
    /\ scenes[1]._screen = Offscreen
    /\ dicts[scenes[1].args].keys = {"level"}
    /\ window.screen = Display2

\* C17: width, height and dimension are those of the window's current
\* surface, dimension being the pair (width, height), whether screen_cache is
\* set or not; with screen_cache set they are not those of the surface
\* screen returns when that one has another size.
C17_DimensionsOfWindow ==
    LET scene == scenes[call.scene]
        cached == screen(scene, window)
    IN  /\ call.name = "width" =>
              /\ call.ret = <<window.screen.w>>
              /\ (scene.screen_cache /\ cached.w # window.screen.w) => call.ret # <<cached.w>>
        /\ call.name = "height" =>
              /\ call.ret = <<window.screen.h>>
              /\ (scene.screen_cache /\ cached.h # window.screen.h) => call.ret # <<cached.h>>
        /\ call.name = "dimension" =>
              /\ call.ret = << <<window.screen.w, window.screen.h>> >>
              /\ call.ret = << <<width(scene, window), height(scene, window)>> >>

C17_Witness ==
    /\ call.name = "width"
    /\ scenes[call.scene].screen_cache
    /\ scenes[call.scene]._screen = Offscreen
    /\ window.screen = Display2
    /\ call.ret = <<800>>

\* the hooks the loop called on scene s, in order
HooksOf(s) == SelectSeq(loop.log, LAMBDA entry : entry[2] = s)

Count(log, name) == Len(SelectSeq(log, LAMBDA entry : entry[1] = name))

\* C11: of the hooks called on a scene the first is init and no other is,
\* quit is called at most once and nothing is called after it; once the scene
\* is no longer the active one, init and quit were each called exactly once.
C11_Lifecycle ==
    \A s \in 1..Len(scenes) :
        LET log == HooksOf(s)
        IN  /\ Count(log, "init") <= 1
            /\ Count(log, "quit") <= 1
            /\ log # <<>> => log[1][1] = "init"
            /\ \A i \in 1..Len(log) : log[i][1] = "quit" => i = Len(log)
            /\ (loop.active # s \/ loop.pc = "idle") =>
                  /\ Count(log, "init") = 1
                  /\ Count(log, "quit") = 1

\* two scenes ran one after the other, each for a frame, and both were quit
C11_Witness ==
    /\ loop.pc = "idle"
    /\ Len(scenes) = 2
    /\ Count(HooksOf(1), "update") = 1
    /\ Count(HooksOf(2), "update") = 1
    /\ call.name = "quit"
    /\ call.scene = 2

\* the hooks called in frame f, each with its argument
FrameLog(f) ==
    LET entries == SelectSeq(loop.log,
                             LAMBDA entry : entry[3] = f /\ entry[1] \notin {"init", "quit"})
    IN  [i \in 1..Len(entries) |-> <<entries[i][1], entries[i][4]>>]

\* what a frame in which the events evs are delivered calls
Expected(evs) ==
    <<  <<"early_update", <<>> >>  >>
        \o [i \in 1..Len(evs) |-> <<"event", <<evs[i]>> >>]
        \o <<  <<"update", <<>> >>, <<"render", <<>> >>, <<"late_update", <<>> >>  >>

IsPrefix(a, b) == Len(a) <= Len(b) /\ SubSeq(b, 1, Len(a)) = a

FrameComplete(f) == f < loop.frame \/ loop.pc \in {"between", "idle", "init"}

=============================================================================
